---- MODULE Spec2Model ----
(***************************************************************************)
(* Verification model of the condominium admin console.                    *)
(*                                                                         *)
(*  Part I  (Spec)     services/api.ts: the shared axios client, its       *)
(*                     request interceptor and the refresh-on-401          *)
(*                     response interceptor.                               *)
(*  Part II (SpecList) the list pages: debounced search, local filter,    *)
(*                     sort and pagination of the fetched rows.            *)
(*  Part III (SpecMut) the delete mutation of a list page and the save     *)
(*                     mutation of a form dialog.                          *)
(*  Part IV (SpecNorm) normalizeList of the list services.                 *)
(*  Part V (SpecLogin) the login form.                                     *)
(*  Part VI (SpecAuth) the session: boot, login, logout.                   *)
(*  Part VII (SpecRoute) the route guards.                                 *)
(*                                                                         *)
(* One action is one event-loop turn: the handler of a response runs with  *)
(* all the microtasks it schedules (the replay's request interceptor       *)
(* included) before the next response is handled.                          *)
(***************************************************************************)
EXTENDS Integers, Sequences, FiniteSets, TLC

\* ---------------------------------------------------------------- bounds
\* Number of mutation requests the user starts from one call site.
MaxMutations == 3
\* Number of confirm dialogs the user answers on one page.
MaxDialogs == 3
\* Number of requests the application issues through the shared client.
NReq == 3
\* Number of rows in the largest response body of a list service call.
MaxBody == 2
\* Number of login requests the login form sends.
MaxLogins == 2

\* ------------------------------------------------------------- constants
\* null / absent (a token, a header, an error)
Null == 0
\* HTTP status that triggers the refresh (api.ts line 45)
Unauthorized == 401
\* another HTTP error status
ServerError == 500
\* HTTP status LoginPage reports as too many attempts (LoginPage.tsx line 68)
TooManyRequests == 429
\* error.response undefined (network error): error.response?.status is undefined
NoResponse == 0

Requests == 1..NReq
ErrorStatuses == {Unauthorized, ServerError, NoResponse}

VARIABLES
    \* ---- services/api.ts, services/storage
    accessToken,     \* let accessToken: string | null  (in memory)
    stAccess,        \* localStorage access_token  (Null when absent)
    stRefresh,       \* localStorage refresh_token (Null when absent)
    isRefreshing,    \* let isRefreshing = false
    pending,         \* let pending: Array<(token) => void>, as the requests whose callbacks it holds
    req,             \* per request: the config object, the promise the caller holds
    refreshInFlight, \* POST /auth/refresh/ calls of the interceptor awaiting their response
    refreshCalls,    \* POST /auth/refresh/ calls the interceptor has issued so far
    \* ---- a list page (component state and the values of its last render)
    listPage,        \* which list page is mounted
    data,            \* useQuery data.results of the page's rows ([] while undefined)
    q,               \* useState q: the search box
    qDebounced,      \* useState qDebounced
    copName,         \* useState copName: the co-owner box (Visitantes)
    copNameDebounced,\* useState copNameDebounced
    page,            \* useState page
    pageSize,        \* useState pageSize
    ordering,        \* useState ordering, as [desc, field]: '-field' / 'field'
    effectPending,   \* the reset-page effect is scheduled (its deps changed)
    painted,         \* the browser has painted the render that scheduled the effect
    filtered,        \* const filtered of the last render
    sorted,          \* const sorted of the last render
    pageItems,       \* const pageItems of the last render
    \* ---- a mutation call site (useMutation and the handler that calls it)
    mutSite,         \* which call site
    mutStatus,       \* the mutation's status: idle / pending / success / error
    mutError,        \* the mutation's error (the status of the failed response)
    errorShown,      \* a message about the failure is on screen (inline text or alert)
    uncaught,        \* a rejection left the component's handler without being caught
    mutations,       \* mutation requests sent so far
    invalidations,   \* onSuccess / onSettled calls so far (invalidateQueries / onSaved)
    inFlight,        \* mutation requests sent and not yet answered
    answers,         \* the answers given to the confirm dialogs, in order
    serverList,      \* the list on the server, as the number of mutations it has applied
    cached,          \* the list in the query cache, as the serverList it was fetched from
    refetching,      \* the list query is invalidated or mounted stale: its fetch is in flight
    \* ---- a list service call (listCopropietarios and its siblings)
    response,        \* the body of the response: the `data` handed to normalizeList
    normalized,      \* what the service call produced from it
    \* ---- pages/Auth/LoginPage.tsx
    usuario,         \* useState usuario
    password,        \* useState password
    remember,        \* useState remember
    touched,         \* useState touched, as [u, p]
    loginLoading,    \* useState loading of LoginPage
    loginError,      \* useState error of LoginPage (NoMessage when null)
    loginCalls,      \* the login(usuario, password) promises onSubmit awaits, with their closures
    loginRequests,   \* login(usuario, password) calls so far
    lastUser,        \* localStorage auth.lastUser (NullStr when absent)
    navigated,       \* navigate('/') was called: the page is left
    \* ---- context/AuthContext (AuthProvider), services/auth.service.ts
    user,            \* useState user (Null when null)
    loading,         \* useState loading of AuthProvider
    bootPc,          \* where boot() is: start / me / refresh / logout / done
    purpose,         \* per request: who awaits it (none / data / me / refreshAccess / login / logout / bootLogout / done)
    loggedOut,       \* a logout() has completed and no login has succeeded since
    bootSaw,         \* the stored tokens boot() read when it started, as [access, refresh]
    bootCalls,       \* the auth.service calls boot() has made, in order
    bootFailed,      \* boot() entered its catch block
    \* ---- routes/AppRouter.tsx (BrowserRouter)
    pathname         \* location.pathname

httpVars == <<accessToken, stAccess, stRefresh, isRefreshing, pending, req,
              refreshInFlight, refreshCalls>>

listVars == <<listPage, data, q, qDebounced, copName, copNameDebounced,
              page, pageSize, ordering, effectPending, painted, filtered, sorted,
              pageItems>>

mutVars == <<mutSite, mutStatus, mutError, errorShown, uncaught, mutations, invalidations,
             inFlight, answers, serverList, cached, refetching>>

normVars == <<response, normalized>>

loginVars == <<usuario, password, remember, touched, loginLoading, loginError,
               loginCalls, loginRequests, lastUser, navigated>>

authVars == <<user, loading, bootPc, purpose, loggedOut, bootSaw, bootCalls, bootFailed>>

routeVars == <<pathname>>

extVars == <<normVars, loginVars, authVars, routeVars>>

uiVars == <<listVars, mutVars, extVars>>

vars == <<httpVars, uiVars>>

\* ------------------------------------------------------------- requests
(* st:      "new"        not issued yet
            "flight"     dispatched, response outstanding
            "queued"     its callback waits in pending           (api.ts 81-96)
            "refreshing" its handler awaits the refresh POST     (api.ts 54)
            "resolved" / "rejected"  the caller's promise is settled
   retry:   original._retry
   hdr:     the Authorization header of the config (the bearer token, Null = none)
   tok1:    the bearer token of the first dispatch
   sends:   number of dispatches (1 = original, 2 = one replay)
   err:     the error object a handler closed over: <<request, dispatch, status>>
   rej:     the error the caller's promise was rejected with
   settles: how often the caller's promise was settled (resolve or reject called
            with effect on the caller)
   trig:    its 401 made the interceptor issue a refresh POST               *)
NoErr == <<>>

NewReq == [st |-> "new", retry |-> FALSE, hdr |-> Null, tok1 |-> Null, sends |-> 0,
           err |-> NoErr, rej |-> NoErr, settles |-> 0, trig |-> FALSE]

\* a request interceptor that forgets to attach the token
RequestInterceptorNoHeader(hdr, token) == hdr

\* api.ts 16-28: the request interceptor. It sets Authorization only when the
\* in-memory token is truthy and otherwise leaves the config's header as it is.
RequestInterceptor(hdr, token) == IF token # Null THEN token ELSE hdr

\* api(config): run the request interceptor and dispatch.
Dispatch(c, token) ==
    [c EXCEPT !.st = "flight",
              !.hdr = RequestInterceptor(c.hdr, token),
              !.tok1 = IF c.sends = 0 THEN RequestInterceptor(c.hdr, token) ELSE c.tok1,
              !.sends = c.sends + 1]

\* Promise.reject(error) / reject(error) reaching the caller
Reject(c, error) ==
    [c EXCEPT !.st = "rejected", !.rej = error, !.settles = c.settles + 1]

\* a callback that replays the request whatever token it is given
CallbackIgnoringToken(c, token, memToken) == Dispatch([c EXCEPT !.hdr = token], memToken)

\* api.ts 82-95: the callback subscribed for a queued request
Callback(c, token, memToken) ==
    IF token # Null
    THEN Dispatch([c EXCEPT !.hdr = token], memToken)      \* lines 84-91
    ELSE Reject(c, c.err)                                  \* line 93

RECURSIVE ForEach(_, _, _, _)
\* api.ts 36: pending.forEach((cb) => cb(token))
ForEach(cbs, token, memToken, rs) ==
    IF cbs = <<>> THEN rs
    ELSE ForEach(Tail(cbs), token, memToken,
                 [rs EXCEPT ![Head(cbs)] = Callback(rs[Head(cbs)], token, memToken)])

\* api.ts 35-36: publish runs every subscribed callback
publish(token, memToken, rs) == ForEach(pending, token, memToken, rs)

\* a publish that forgets line 37 and keeps the callbacks
pendingNotCleared == pending

\* api.ts 37: pending = []
pendingAfterPublish == <<>>

\* api.ts 34: subscribe
subscribe(r) == Append(pending, r)

\* a guard that forgets the _retry mark
NeedsRefreshIgnoringRetry(status, c) == status = Unauthorized

\* a guard that forgets the status test
NeedsRefreshOnAnyError(status, c) == ~c.retry

\* api.ts 45: the guard of the recovery branch
NeedsRefresh(status, c) == status = Unauthorized /\ ~c.retry

\* a guard that forgets the isRefreshing flag
StartsRefreshAlways == TRUE

\* api.ts 48: a refresh is started only when none is running
StartsRefresh == ~isRefreshing

\* ----------------------------------------------------------------- Init
HttpInit ==
    /\ stAccess \in {Null, 1}
    /\ stRefresh \in {Null, 1}
    /\ accessToken = stAccess                  \* api.ts 7
    /\ isRefreshing = FALSE                    \* api.ts 31
    /\ pending = <<>>                          \* api.ts 32
    /\ req = [r \in Requests |-> NewReq]
    /\ refreshInFlight = 0
    /\ refreshCalls = 0

\* -------------------------------------------------------------- actions
\* The application calls api.get/post/...: requests are issued in order.
Send(r) ==
    /\ req[r].st = "new"
    /\ UNCHANGED uiVars
    /\ \A s \in Requests : s < r => req[s].st # "new"
    /\ req' = [req EXCEPT ![r] = Dispatch(req[r], accessToken)]
    /\ UNCHANGED <<accessToken, stAccess, stRefresh, isRefreshing, pending,
                   refreshInFlight, refreshCalls>>

\* api.ts 41: (res) => res
RespondOK(r) ==
    /\ req[r].st = "flight"
    /\ UNCHANGED uiVars
    /\ req' = [req EXCEPT ![r] = [@ EXCEPT !.st = "resolved", !.settles = @ + 1]]
    /\ UNCHANGED <<accessToken, stAccess, stRefresh, isRefreshing, pending,
                   refreshInFlight, refreshCalls>>

\* api.ts 42-100: the error handler, up to its first await
RespondError(r, status) ==
    /\ req[r].st = "flight"
    /\ UNCHANGED uiVars
    /\ LET error == <<r, req[r].sends, status>>
           c == req[r]
       IN
       /\ IF NeedsRefresh(status, c)
          THEN LET c1 == [c EXCEPT !.retry = TRUE, !.err = error]      \* line 46
               IN
               IF StartsRefresh
               THEN IF stRefresh = Null
                    THEN \* line 52 throws; catch 71-74; finally 76
                         /\ stAccess' = Null /\ stRefresh' = Null
                         /\ accessToken' = Null
                         /\ req' = [publish(Null, Null, req) EXCEPT ![r] = Reject(c1, error)]
                         /\ pending' = pendingAfterPublish
                         /\ isRefreshing' = FALSE
                         /\ UNCHANGED <<refreshInFlight, refreshCalls>>
                    ELSE \* line 54: the refresh POST is sent, the handler awaits it
                         /\ isRefreshing' = TRUE                     \* line 49
                         /\ req' = [req EXCEPT ![r] = [c1 EXCEPT !.st = "refreshing",
                                                                 !.trig = TRUE]]
                         /\ refreshInFlight' = refreshInFlight + 1
                         /\ refreshCalls' = refreshCalls + 1
                         /\ UNCHANGED <<accessToken, stAccess, stRefresh, pending>>
               ELSE \* lines 81-96
                    /\ pending' = subscribe(r)
                    /\ req' = [req EXCEPT ![r] = [c1 EXCEPT !.st = "queued"]]
                    /\ UNCHANGED <<accessToken, stAccess, stRefresh, isRefreshing,
                                   refreshInFlight, refreshCalls>>
          ELSE \* line 99
               /\ req' = [req EXCEPT ![r] = Reject(c, error)]
               /\ UNCHANGED <<accessToken, stAccess, stRefresh, isRefreshing, pending,
                              refreshInFlight, refreshCalls>>

\* The access token of the n-th refresh response (a fresh, non-empty string)
NewAccess(n) == n + 1

\* api.ts 54-69 and 76: the refresh POST succeeded
RefreshOK(r) ==
    /\ req[r].st = "refreshing"
    /\ UNCHANGED uiVars
    /\ LET newAccess == NewAccess(refreshCalls)
           c1 == [req[r] EXCEPT !.hdr = newAccess]                   \* lines 62-67
       IN
       /\ stAccess' = newAccess                                        \* line 57
       /\ accessToken' = newAccess                                     \* line 58
       /\ req' = [publish(newAccess, newAccess, req) EXCEPT            \* line 59
                     ![r] = Dispatch(c1, newAccess)]                   \* line 69
       /\ pending' = pendingAfterPublish
    /\ isRefreshing' = FALSE                                           \* line 76
    /\ refreshInFlight' = refreshInFlight - 1
    /\ UNCHANGED <<stRefresh, refreshCalls>>

\* api.ts 70-77: the refresh POST failed
RefreshFail(r) ==
    /\ req[r].st = "refreshing"
    /\ UNCHANGED uiVars
    /\ stAccess' = Null /\ stRefresh' = Null                           \* line 71
    /\ accessToken' = Null                                             \* line 72
    /\ req' = [publish(Null, Null, req) EXCEPT                         \* line 73
                  ![r] = Reject(req[r], req[r].err)]                   \* line 74
    /\ pending' = pendingAfterPublish
    /\ isRefreshing' = FALSE                                           \* line 76
    /\ refreshInFlight' = refreshInFlight - 1
    /\ UNCHANGED <<refreshCalls>>

Next ==
    \/ \E r \in Requests : Send(r)
    \/ \E r \in Requests : RespondOK(r)
    \/ \E r \in Requests, s \in ErrorStatuses : RespondError(r, s)
    \/ \E r \in Requests : RefreshOK(r)
    \/ \E r \in Requests : RefreshFail(r)


\* ======================================================================
\* Part II: the list pages
\* ======================================================================
\* Strings are sequences of UTF-16 code units. A field that is null or
\* undefined holds NullStr; numbers held in a field are their String().
NullStr == <<-1>>

\* Length of the long fetched list (several pages at every page size offered)
MaxLong == 11

\* v ?? ''
OrEmpty(v) == IF v = NullStr THEN <<>> ELSE v

\* String.prototype.toLowerCase on the code units 'A'..'Z'
toLowerCase(s) == [i \in 1..Len(s) |-> IF s[i] >= 65 /\ s[i] <= 90 THEN s[i] + 32 ELSE s[i]]

\* String.prototype.trim (the space is the only white space typed here)
RECURSIVE trimStart(_)
trimStart(s) == IF s # <<>> /\ Head(s) = 32 THEN trimStart(Tail(s)) ELSE s

RECURSIVE trimEnd(_)
trimEnd(s) == IF s # <<>> /\ s[Len(s)] = 32 THEN trimEnd(SubSeq(s, 1, Len(s) - 1)) ELSE s

trim(s) == trimEnd(trimStart(s))

\* String.prototype.includes
includes(s, needle) ==
    \E k \in 0..(Len(s) - Len(needle)) : SubSeq(s, k + 1, k + Len(needle)) = needle

\* The relational operator < on two strings: code units, left to right
RECURSIVE strLess(_, _)
strLess(a, b) ==
    IF b = <<>> THEN FALSE
    ELSE IF a = <<>> THEN TRUE
    ELSE IF Head(a) # Head(b) THEN Head(a) < Head(b)
    ELSE strLess(Tail(a), Tail(b))

IsDigit(c) == c >= 48 /\ c <= 57

\* String(n) of a natural number
RECURSIVE Digits(_)
Digits(n) == IF n < 10 THEN <<48 + n>> ELSE Append(Digits(n \div 10), 48 + (n % 10))

\* The value of a run of decimal digits
RECURSIVE DigitsValue(_)
DigitsValue(s) ==
    IF s = <<>> THEN 0 ELSE 10 * DigitsValue(SubSeq(s, 1, Len(s) - 1)) + (s[Len(s)] - 48)

RECURSIVE Pow10(_)
Pow10(n) == IF n = 0 THEN 1 ELSE 10 * Pow10(n - 1)

\* Number(v) for null, the empty string, a run of decimal digits and a run of
\* digits with a decimal exponent (the StringNumericLiteral forms that strings
\* of digits and letters can take); NaN otherwise.
AllDigits(s) == s # <<>> /\ \A i \in 1..Len(s) : IsDigit(s[i])

ExponentAt(s, k) ==
    /\ s[k] \in {101, 69}
    /\ AllDigits(SubSeq(s, 1, k - 1))
    /\ AllDigits(SubSeq(s, k + 1, Len(s)))

Number(v) ==
    IF v = NullStr \/ v = <<>> THEN [finite |-> TRUE, val |-> 0]
    ELSE IF AllDigits(v) THEN [finite |-> TRUE, val |-> DigitsValue(v)]
    ELSE IF \E k \in 1..Len(v) : ExponentAt(v, k)
    THEN LET k == CHOOSE k \in 1..Len(v) : ExponentAt(v, k)
         IN [finite |-> TRUE,
             val |-> DigitsValue(SubSeq(v, 1, k - 1)) * Pow10(DigitsValue(SubSeq(v, k + 1, Len(v))))]
    ELSE [finite |-> FALSE, val |-> 0]

\* The longest prefix of decimal digits
RECURSIVE DigitRun(_)
DigitRun(s) == IF s # <<>> /\ IsDigit(Head(s)) THEN <<Head(s)>> \o DigitRun(Tail(s)) ELSE <<>>

\* a.localeCompare(b, undefined, {numeric: true, sensitivity: 'base'}) on
\* strings of spaces, digits and unaccented letters: runs of digits compare by
\* value, letters compare without case, space < digit < letter.
RECURSIVE localeCompare(_, _)
localeCompare(a, b) ==
    IF a = <<>> /\ b = <<>> THEN 0
    ELSE IF a = <<>> THEN -1
    ELSE IF b = <<>> THEN 1
    ELSE IF IsDigit(Head(a)) /\ IsDigit(Head(b))
    THEN LET ra == DigitRun(a)
             rb == DigitRun(b)
         IN  IF DigitsValue(ra) < DigitsValue(rb) THEN -1
             ELSE IF DigitsValue(ra) > DigitsValue(rb) THEN 1
             ELSE localeCompare(SubSeq(a, Len(ra) + 1, Len(a)), SubSeq(b, Len(rb) + 1, Len(b)))
    ELSE LET ca == toLowerCase(<<Head(a)>>)[1]
             cb == toLowerCase(<<Head(b)>>)[1]
         IN  IF ca < cb THEN -1
             ELSE IF ca > cb THEN 1
             ELSE localeCompare(Tail(a), Tail(b))

\* ------------------------------------------------------------- the rows
ListPages == {"copropietarios", "casas", "visitantes"}

\* The rows the backend holds, by id. Rows 1..3 are spelled out, the rows
\* after them repeat their texts with the id as the number.
Copropietario(i) ==
    LET k == ((i - 1) % 3) + 1
    IN [id |-> i,
        nombre   |-> <<<<65, 98>>, <<99>>, <<99, 97>>>>[k],              \* Ab  c  ca
        apellido |-> <<<<98>>, <<67>>, <<97>>>>[k],                      \* b   C  a
        carnet   |-> IF i > 3 THEN Digits(i) ELSE <<<<49, 50>>, <<50>>, NullStr>>[k],
        correo   |-> <<NullStr, <<>>, <<67>>>>[k],
        usuario  |-> <<<<99>>, <<>>, <<97>>>>[k]]

Casa(i) ==
    LET k == ((i - 1) % 3) + 1
    IN [id |-> i,
        tipo   |-> <<<<67, 65, 83, 65>>,                                 \* CASA
                     <<68, 69, 80, 65, 82, 84, 65, 77, 69, 78, 84, 79>>, \* DEPARTAMENTO
                     <<68, 69, 80, 65, 82, 84, 65, 77, 69, 78, 84, 79>>>>[k],
        numero |-> IF i > 3 THEN Digits(i)
                   ELSE <<<<50>>, <<49, 69, 49>>, <<49, 70>>>>[k],       \* 2  1E1  1F
        piso   |-> IF i > 3 THEN Digits(i % 4) ELSE <<NullStr, <<50>>, <<49>>>>[k],
        torre  |-> NullStr,
        bloque |-> <<<<66>>, NullStr, <<>>>>[k],                         \* B
        direccion |-> NullStr,
        area_m2 |-> NullStr,
        copropietario |-> k]

Visitante(i) ==
    LET k == ((i - 1) % 3) + 1
    IN [id |-> i,
        nombre |-> <<<<65, 98>>, <<99>>, <<99, 97>>>>[k],                \* Ab  c  ca
        placa  |-> <<<<49, 98>>, <<67, 50>>, <<>>>>[k],                  \* 1b  C2
        estado |-> <<1, 0, 2>>[k],
        estado_texto |-> <<<<105, 110, 103, 114, 101, 115, 111>>,                 \* ingreso
                           <<112, 101, 110, 100, 105, 101, 110, 116, 101>>,       \* pendiente
                           <<115, 97, 108, 105, 111>>>>[k],                       \* salio
        fechaIngreso |-> <<<<49, 50>>, <<50>>, <<49>>>>[k],
        horaIngreso  |-> <<<<49>>, <<50>>, <<>>>>[k],
        created_at   |-> IF i > 3 THEN Digits(i) ELSE <<<<50>>, <<49>>, <<49, 50>>>>[k],
        copropietario |-> <<2, 1, 3>>[k]]

Row(lp, i) ==
    IF lp = "copropietarios" THEN Copropietario(i)
    ELSE IF lp = "casas" THEN Casa(i)
    ELSE Visitante(i)

\* The co-owner catalogue the Casas and Visitantes pages read (its query data,
\* held in the query cache): co-owner 3 is not part of it
CopCatalog == <<Copropietario(1), Copropietario(2)>>

\* The ids of the rows that are spelled out
SpelledOut == {1, 2, 3}

\* The lists a fetch can answer with: the spelled-out rows in any number and
\* order, and one long list of the rows after them.
ShortLists(lp) ==
    UNION {{[i \in 1..n |-> Row(lp, f[i])] :
              f \in {g \in [1..n -> SpelledOut] : \A i, j \in 1..n : g[i] = g[j] => i = j}} :
           n \in 0..Cardinality(SpelledOut)}

LongList(lp) == [i \in 1..MaxLong |-> Row(lp, Cardinality(SpelledOut) + i)]

FetchedLists(lp) == ShortLists(lp) \cup {LongList(lp)}

\* What is typed into the search box and into the co-owner box
QueryInputs == {<<>>, <<32, 65>>}                                       \* '' ' A'
CopNameInputs == {<<>>, <<32, 99>>}                                     \* '' ' c'

\* The options of the page-size select
PageSizeOptions == {5, 10, 20, 50}

SortFields(lp) ==
    IF lp = "copropietarios" THEN {"apellido", "nombre", "carnet"}
    ELSE IF lp = "casas" THEN {"numero", "tipo", "piso"}
    ELSE {"created_at", "nombre", "placa", "estado"}

DefaultOrdering(lp) ==
    [desc |-> FALSE,
     field |-> IF lp = "copropietarios" THEN "apellido"
               ELSE IF lp = "casas" THEN "numero" ELSE "created_at"]

\* ------------------------------------------------------------ the filter
\* copMap of CasasListPage: [apellido, nombre].filter(Boolean).join(', ') || '#id'
CasasCopLabel(c) ==
    LET a == OrEmpty(c.apellido)
        n == OrEmpty(c.nombre)
    IN  IF a # <<>> /\ n # <<>> THEN a \o <<44, 32>> \o n
        ELSE IF a # <<>> THEN a
        ELSE IF n # <<>> THEN n
        ELSE <<35>> \o Digits(c.id)

\* copMap of VisitantesListPage:
\* `${apellido ?? ''} ${nombre ?? ''}`.trim() || usuario || String(id)
VisitantesCopLabel(c) ==
    LET t == trim(OrEmpty(c.apellido) \o <<32>> \o OrEmpty(c.nombre))
    IN  IF t # <<>> THEN t
        ELSE IF OrEmpty(c.usuario) # <<>> THEN c.usuario
        ELSE Digits(c.id)

InCatalog(cd, id) == \E i \in 1..Len(cd) : cd[i].id = id

CatalogEntry(cd, id) == cd[CHOOSE i \in 1..Len(cd) : cd[i].id = id]

\* copMap.get(r.copropietario) ?? String(r.copropietario)
CasasOwner(cd, r) ==
    IF InCatalog(cd, r.copropietario) THEN CasasCopLabel(CatalogEntry(cd, r.copropietario))
    ELSE Digits(r.copropietario)

\* copMap[r.copropietario] || ''
VisitantesCopFull(cd, r) ==
    IF InCatalog(cd, r.copropietario) THEN VisitantesCopLabel(CatalogEntry(cd, r.copropietario))
    ELSE <<>>

hay(v) == toLowerCase(OrEmpty(v))

\* The lower-cased texts of a row that the search box is matched against
SearchTexts(lp, cd, r) ==
    IF lp = "copropietarios"
    THEN <<hay(r.nombre), hay(r.apellido), hay(r.carnet), hay(r.correo), hay(r.usuario)>>
    ELSE IF lp = "casas"
    THEN <<hay(r.tipo), hay(r.numero), hay(r.piso), hay(r.torre), hay(r.bloque),
           hay(r.direccion), hay(r.area_m2), toLowerCase(CasasOwner(cd, r))>>
    ELSE <<hay(r.nombre), hay(r.placa), hay(r.estado_texto), hay(r.fechaIngreso),
           hay(r.horaIngreso)>>

\* hay(..).includes(needle) || hay(..).includes(needle) || ...
matchQ(lp, cd, r, qd) ==
    LET texts == SearchTexts(lp, cd, r)
        needle == toLowerCase(qd)
    IN  \E i \in 1..Len(texts) : includes(texts[i], needle)

\* The second test of VisitantesListPage (lines 89-92)
matchCop(cd, r, cnd) == includes(toLowerCase(VisitantesCopFull(cd, r)), toLowerCase(cnd))

\* A variant of the Visitantes page without the co-owner box
KeepsVisitanteByQueryOnly(cd, r, qd, cnd) == qd # <<>> => matchQ("visitantes", cd, r, qd)

\* The callback of all.filter on the Visitantes page (lines 77-94)
KeepsVisitante(cd, r, qd, cnd) ==
    /\ qd # <<>> => matchQ("visitantes", cd, r, qd)
    /\ cnd # <<>> => matchCop(cd, r, cnd)

\* const filtered = useMemo(...)
filteredOf(lp, all, cd, qd, cnd) ==
    IF lp = "visitantes"
    THEN LET Test(r) == KeepsVisitante(cd, r, qd, cnd) IN SelectSeq(all, Test)
    ELSE IF qd = <<>> THEN all
    ELSE LET Test(r) == matchQ(lp, cd, r, qd) IN SelectSeq(all, Test)

\* -------------------------------------------------------------- the sort
dir(ord) == IF ord.desc THEN -1 ELSE 1

Sign(x, y) == IF x < y THEN -1 ELSE IF x > y THEN 1 ELSE 0

\* if (va < vb) return -1 * dir; if (va > vb) return 1 * dir; return 0  (strings)
cmpStrings(va, vb, d) ==
    IF strLess(va, vb) THEN -1 * d ELSE IF strLess(vb, va) THEN 1 * d ELSE 0

\* The comparator of CasasListPage (LoginPage.tsx 441-454)
cmpCasas(va, vb, d) ==
    LET na == Number(va)
        nb == Number(vb)
    IN  (IF na.finite /\ nb.finite
         THEN Sign(na.val, nb.val)
         ELSE localeCompare(OrEmpty(va), OrEmpty(vb))) * d

\* The comparator the page hands to Array.prototype.sort
cmp(lp, ord, a, b) ==
    IF lp = "casas" THEN cmpCasas(a[ord.field], b[ord.field], dir(ord))
    ELSE IF lp = "visitantes" /\ ord.field = "estado"
    THEN Sign(a.estado, b.estado) * dir(ord)
    ELSE cmpStrings(toLowerCase(OrEmpty(a[ord.field])), toLowerCase(OrEmpty(b[ord.field])),
                    dir(ord))

\* A stable sort by a comparator: insertion from the left
RECURSIVE insertRow(_, _, _, _)
insertRow(lp, ord, s, x) ==
    IF s = <<>> THEN <<x>>
    ELSE IF cmp(lp, ord, s[Len(s)], x) > 0
    THEN Append(insertRow(lp, ord, SubSeq(s, 1, Len(s) - 1), x), s[Len(s)])
    ELSE Append(s, x)

RECURSIVE stableSort(_, _, _)
stableSort(lp, ord, s) ==
    IF s = <<>> THEN <<>>
    ELSE insertRow(lp, ord, stableSort(lp, ord, SubSeq(s, 1, Len(s) - 1)), s[Len(s)])

\* ECMAScript's "consistent comparator" over the elements of s: the signs of
\* the comparator are antisymmetric and transitive.
ConsistentComparator(lp, ord, s) ==
    LET I == 1..Len(s)
        c == [i \in I |-> [j \in I |-> cmp(lp, ord, s[i], s[j])]]
    IN  /\ \A i, j \in I : Sign(c[i][j], 0) = - Sign(c[j][i], 0)
        /\ \A i, j, k \in I :
              /\ c[i][j] = 0 /\ c[j][k] = 0 => c[i][k] = 0
              /\ c[i][j] < 0 /\ c[j][k] < 0 => c[i][k] < 0
              /\ c[i][j] < 0 /\ c[j][k] = 0 => c[i][k] < 0
              /\ c[i][j] = 0 /\ c[j][k] < 0 => c[i][k] < 0

AllOrders(s) == {[i \in 1..Len(s) |-> s[f[i]]] : f \in Permutations(1..Len(s))}

\* Only the Casas comparator mixes two orders (numbers by value, everything
\* else by collation); the other pages compare by < alone.
ComparesByOneOrder(lp, ord, s) ==
    \/ lp # "casas"
    \/ \A i \in 1..Len(s) : Number(s[i][ord.field]).finite
    \/ \A i \in 1..Len(s) : ~Number(s[i][ord.field]).finite

\* [...filtered].sort(cmp): the stable sorted copy when the comparator is
\* consistent, an implementation-defined order of the elements when not.
sortedCopies(lp, ord, s) ==
    IF ComparesByOneOrder(lp, ord, s) \/ ConsistentComparator(lp, ord, s)
    THEN {stableSort(lp, ord, s)}
    ELSE AllOrders(s)

\* ------------------------------------------------------- the pagination
Max(a, b) == IF a >= b THEN a ELSE b
Min(a, b) == IF a <= b THEN a ELSE b

\* Math.ceil(a / b) for a >= 0, b > 0
Ceil(a, b) == (a + b - 1) \div b

\* const pages = Math.max(1, Math.ceil(total / pageSize))
pagesOf(total, ps) == Max(1, Ceil(total, ps))

\* A variant that counts pages from 0
startFromPage(pg, ps) == pg * ps

\* const start = (page - 1) * pageSize
startOf(pg, ps) == (pg - 1) * ps

\* Array.prototype.slice(b, e) for 0 <= b <= e
slice(arr, b, e) == SubSeq(arr, Min(b, Len(arr)) + 1, Min(e, Len(arr)))

\* const pageItems = sorted.slice(start, start + pageSize)
pageItemsOf(s, pg, ps) == slice(s, startOf(pg, ps), startOf(pg, ps) + ps)

pages == pagesOf(Len(sorted), pageSize)

\* ----------------------------------------------------- the list page
\* The page as mounted and rendered once, before any response: the mount run
\* of the reset effect (setPage(1) on page 1) has changed nothing.
ListInit(lp) ==
    /\ listPage = lp
    /\ data = <<>>
    /\ q = <<>> /\ qDebounced = <<>>
    /\ copName = <<>> /\ copNameDebounced = <<>>
    /\ page = 1
    /\ pageSize = 10
    /\ ordering = DefaultOrdering(lp)
    /\ effectPending = FALSE
    /\ painted = FALSE
    /\ filtered = <<>> /\ sorted = <<>> /\ pageItems = <<>>

\* One render of the component with the given query data and state: filtered
\* and sorted are memoised on their inputs, pageItems is computed every time.
Render(d, qd, cnd, ord, ps, pg) ==
    LET f == filteredOf(listPage, d, CopCatalog, qd, cnd)
    IN  /\ filtered' = f
        /\ IF f = filtered /\ ord = ordering
           THEN sorted' = sorted
           ELSE sorted' \in sortedCopies(listPage, ord, f)
        /\ pageItems' = pageItemsOf(sorted', pg, ps)

\* The rows query resolves (first load, or a refetch of the key)
FetchDone(rows) ==
    /\ ~effectPending
    /\ data' = rows
    /\ Render(rows, qDebounced, copNameDebounced, ordering, pageSize, page)
    /\ UNCHANGED <<listPage, q, qDebounced, copName, copNameDebounced,
                   page, pageSize, ordering, effectPending, painted>>
    /\ UNCHANGED <<httpVars, mutVars, extVars>>

\* onChange of the search box
setQ(s) ==
    /\ ~effectPending
    /\ s # q
    /\ q' = s
    /\ UNCHANGED <<listPage, data, qDebounced, copName, copNameDebounced,
                   page, pageSize, ordering, effectPending, painted,
                   filtered, sorted, pageItems>>
    /\ UNCHANGED <<httpVars, mutVars, extVars>>

\* The 300 ms timer fires: setQDebounced(q.trim())
Debounce ==
    /\ ~effectPending
    /\ trim(q) # qDebounced
    /\ qDebounced' = trim(q)
    /\ effectPending' = TRUE
    /\ painted' = FALSE
    /\ Render(data, trim(q), copNameDebounced, ordering, pageSize, page)
    /\ UNCHANGED <<listPage, data, q, copName, copNameDebounced,
                   page, pageSize, ordering>>
    /\ UNCHANGED <<httpVars, mutVars, extVars>>

\* onChange of the co-owner box (Visitantes)
setCopName(s) ==
    /\ ~effectPending
    /\ listPage = "visitantes"
    /\ s # copName
    /\ copName' = s
    /\ UNCHANGED <<listPage, data, q, qDebounced, copNameDebounced,
                   page, pageSize, ordering, effectPending, painted,
                   filtered, sorted, pageItems>>
    /\ UNCHANGED <<httpVars, mutVars, extVars>>

\* Its timer fires: setCopNameDebounced(copName.trim())
DebounceCopName ==
    /\ ~effectPending
    /\ listPage = "visitantes"
    /\ trim(copName) # copNameDebounced
    /\ copNameDebounced' = trim(copName)
    /\ effectPending' = TRUE
    /\ painted' = FALSE
    /\ Render(data, qDebounced, trim(copName), ordering, pageSize, page)
    /\ UNCHANGED <<listPage, data, q, qDebounced, copName,
                   page, pageSize, ordering>>
    /\ UNCHANGED <<httpVars, mutVars, extVars>>

\* prev === field ? `-${field}` : field
toggled(prev, field) ==
    IF prev = [desc |-> FALSE, field |-> field]
    THEN [desc |-> TRUE, field |-> field]
    ELSE [desc |-> FALSE, field |-> field]

\* A click on a column header
toggleOrdering(field) ==
    /\ ~effectPending
    /\ ordering' = toggled(ordering, field)
    /\ effectPending' = TRUE
    /\ painted' = FALSE
    /\ Render(data, qDebounced, copNameDebounced, toggled(ordering, field),
              pageSize, page)
    /\ UNCHANGED <<listPage, data, q, qDebounced, copName, copNameDebounced,
                   page, pageSize>>
    /\ UNCHANGED <<httpVars, mutVars, extVars>>

\* onChange of the page-size select
setPageSize(n) ==
    /\ ~effectPending
    /\ n # pageSize
    /\ pageSize' = n
    /\ effectPending' = TRUE
    /\ painted' = FALSE
    /\ Render(data, qDebounced, copNameDebounced, ordering, n, page)
    /\ UNCHANGED <<listPage, data, q, qDebounced, copName, copNameDebounced,
                   page, ordering>>
    /\ UNCHANGED <<httpVars, mutVars, extVars>>

\* Anterior: disabled={page <= 1}, setPage(p => Math.max(1, p - 1))
Anterior ==
    /\ ~effectPending
    /\ ~(page <= 1)
    /\ page' = Max(1, page - 1)
    /\ Render(data, qDebounced, copNameDebounced, ordering, pageSize,
              Max(1, page - 1))
    /\ UNCHANGED <<listPage, data, q, qDebounced, copName, copNameDebounced,
                   pageSize, ordering, effectPending, painted>>
    /\ UNCHANGED <<httpVars, mutVars, extVars>>

\* Siguiente: disabled={page >= pages}, setPage(p => Math.min(pages, p + 1))
Siguiente ==
    /\ ~effectPending
    /\ ~(page >= pages)
    /\ page' = Min(pages, page + 1)
    /\ Render(data, qDebounced, copNameDebounced, ordering, pageSize,
              Min(pages, page + 1))
    /\ UNCHANGED <<listPage, data, q, qDebounced, copName, copNameDebounced,
                   pageSize, ordering, effectPending, painted>>
    /\ UNCHANGED <<httpVars, mutVars, extVars>>

\* useEffect(() => { setPage(1) }, [qDebounced, pageSize, ordering, ...])
ResetPage ==
    /\ effectPending
    /\ effectPending' = FALSE
    /\ painted' = FALSE
    /\ page' = 1
    /\ Render(data, qDebounced, copNameDebounced, ordering, pageSize, 1)
    /\ UNCHANGED <<listPage, data, q, qDebounced, copName, copNameDebounced,
                   pageSize, ordering>>
    /\ UNCHANGED <<httpVars, mutVars, extVars>>

\* The browser paints what React committed. The reset effect is a passive
\* effect: it runs after the commit, and the setPage(1) it makes is rendered
\* by a later task, so a paint may fall between the two renders.
Paint ==
    /\ effectPending
    /\ ~painted
    /\ painted' = TRUE
    /\ UNCHANGED <<listPage, data, q, qDebounced, copName, copNameDebounced,
                   page, pageSize, ordering, effectPending, filtered, sorted, pageItems>>
    /\ UNCHANGED <<httpVars, mutVars, extVars>>

NextList ==
    \/ \E rows \in FetchedLists(listPage) : FetchDone(rows)
    \/ \E s \in QueryInputs : setQ(s)
    \/ Debounce
    \/ \E s \in CopNameInputs : setCopName(s)
    \/ DebounceCopName
    \/ \E f \in SortFields(listPage) : toggleOrdering(f)
    \/ \E n \in PageSizeOptions : setPageSize(n)
    \/ Anterior
    \/ Siguiente
    \/ Paint
    \/ ResetPage

\* ======================================================================
\* Part III: the mutation call sites
\* ======================================================================
\* del of CopropietariosListPage and its Eliminar button; removeMutation of
\* HomePage and the Eliminar button of its rows; createMut/updateMut of three
\* form dialogs and of the admin form page, and their onSubmit.
ListDeleteSites == {"CopropietariosListPage.del"}
DeleteSites == ListDeleteSites \cup {"HomePage.removeMutation"}
SaveSites == {"GuardiaFormDialog.save", "EspacioComunFormDialog.save",
              "VehiculoFormDialog.save", "AdminFormPage.save"}
MutSites == DeleteSites \cup SaveSites

\* How a mutation request fails: a 4xx/5xx response, or no response
BadRequest == 400
MutationFailures == {BadRequest, ServerError, NoResponse}

MutInit(site) ==
    /\ mutSite = site
    /\ mutStatus = "idle"
    /\ mutError = Null
    /\ errorShown = FALSE
    /\ uncaught = FALSE
    /\ mutations = 0
    /\ invalidations = 0
    /\ inFlight = 0
    /\ answers = <<>>
    /\ serverList = 0
    /\ cached = 0
    /\ refetching = FALSE

\* The site shows a failure: EspacioComunFormDialog by onError -> setFormError
\* (lines 120-129, 135-144), VehiculoFormDialog by rendering isError (line 303),
\* HomePage by onError -> alert. The others pass no onError and render nothing
\* of the mutation's error.
ShowsFailure(site) ==
    site \in {"EspacioComunFormDialog.save", "VehiculoFormDialog.save",
              "HomePage.removeMutation"}

\* The handler awaits mutateAsync inside try/catch: EspacioComunFormDialog
\* 155-163. HomePage calls mutate, which returns no promise.
CatchesRejection(site) ==
    site \in {"EspacioComunFormDialog.save", "HomePage.removeMutation"}

\* A button that is never disabled
DisabledNever(site, status) == FALSE

\* disabled={del.isPending} on the Eliminar buttons of the list pages,
\* disabled={pending} on the submit buttons; the Eliminar button of HomePage's
\* Row has no disabled attribute.
Disabled(site, status) ==
    IF site = "HomePage.removeMutation" THEN FALSE ELSE status = "pending"

\* onMutate of HomePage: cancelQueries({ queryKey: ['admins'] }) matches the
\* table's query ['admins', { page: 1, page_size: 1000 }] and cancels its
\* fetch; setQueryData writes the key ['admins'], which no component reads.
CancelsListFetch(site) == site = "HomePage.removeMutation"

\* Eliminar, with the confirm dialog answered (part_010 171-175), or the
\* submit of a valid form (onSubmit).
StartMutation(ok) ==
    /\ ~Disabled(mutSite, mutStatus)
    /\ mutations < MaxMutations
    /\ mutSite \in SaveSites => ok
    /\ IF mutSite \in DeleteSites
       THEN Len(answers) < MaxDialogs /\ answers' = Append(answers, ok)
       ELSE UNCHANGED answers
    /\ IF ok
       THEN /\ mutStatus' = "pending"
            /\ mutError' = Null
            /\ mutations' = mutations + 1
            /\ inFlight' = inFlight + 1
            \* setFormError('') / isError is false while pending
            /\ errorShown' = IF ShowsFailure(mutSite) THEN FALSE ELSE errorShown
            /\ refetching' = IF CancelsListFetch(mutSite) THEN FALSE ELSE refetching
       ELSE UNCHANGED <<mutStatus, mutError, mutations, inFlight, errorShown,
                        refetching>>                                \* if (!ok) return
    /\ UNCHANGED <<mutSite, uncaught, invalidations, serverList, cached>>
    /\ UNCHANGED <<httpVars, listVars, extVars>>

\* onSuccess invalidates the list query: the list pages' del (part_010 38) and
\* the dialogs' onSaved (part_010 225-228). AdminFormPage's createMut and
\* updateMut navigate to /admins instead (part_007 77, 82).
Invalidates(site) == site # "AdminFormPage.save"

\* HomePage invalidates in onSettled, after a failure as well
InvalidatesOnFailure(site) == site = "HomePage.removeMutation"

\* The request of the current mutation succeeds: the server has applied it,
\* onSuccess / onSettled runs, mutateAsync resolves. invalidateQueries starts
\* the refetch of the mounted list query (a running fetch is restarted). Where
\* onSuccess navigates to the list page, the list query fetches on mount only
\* if it has no data or its data is older than staleTime (part_008 32).
MutationOK(expired) ==
    /\ mutStatus = "pending"
    /\ mutStatus' = "success"
    /\ inFlight' = inFlight - 1
    /\ invalidations' = invalidations + 1
    /\ serverList' = serverList + 1
    /\ refetching' = IF Invalidates(mutSite) THEN TRUE ELSE (refetching \/ expired)
    /\ UNCHANGED <<mutSite, mutError, errorShown, uncaught, mutations, answers, cached>>
    /\ UNCHANGED <<httpVars, listVars, extVars>>

\* The fetch of the list query completes: the cache holds the server's list.
RefetchDone ==
    /\ refetching
    /\ refetching' = FALSE
    /\ cached' = serverList
    /\ UNCHANGED <<mutSite, mutStatus, mutError, errorShown, uncaught, mutations,
                   invalidations, inFlight, answers, serverList>>
    /\ UNCHANGED <<httpVars, listVars, extVars>>

\* The request of the current mutation fails: onError and onSettled run where
\* there are any, mutateAsync rejects
MutationFail(s) ==
    /\ mutStatus = "pending"
    /\ mutStatus' = "error"
    /\ mutError' = s
    /\ inFlight' = inFlight - 1
    /\ errorShown' = ShowsFailure(mutSite)
    /\ uncaught' = (uncaught \/ ~CatchesRejection(mutSite))
    /\ invalidations' = IF InvalidatesOnFailure(mutSite) THEN invalidations + 1
                        ELSE invalidations
    /\ refetching' = IF InvalidatesOnFailure(mutSite) THEN TRUE ELSE refetching
    /\ UNCHANGED <<mutSite, mutations, answers, serverList, cached>>
    /\ UNCHANGED <<httpVars, listVars, extVars>>

\* The request of an earlier mutation is answered after mutate was called
\* again: the observer follows the latest mutation only, so the status does
\* not change, but the callbacks given to useMutation run all the same.
EarlierSettles(ok) ==
    /\ inFlight > (IF mutStatus = "pending" THEN 1 ELSE 0)
    /\ inFlight' = inFlight - 1
    /\ serverList' = IF ok THEN serverList + 1 ELSE serverList
    /\ errorShown' = IF ok THEN errorShown ELSE ShowsFailure(mutSite)
    /\ invalidations' = IF ok \/ InvalidatesOnFailure(mutSite) THEN invalidations + 1
                        ELSE invalidations
    /\ refetching' = IF (ok /\ Invalidates(mutSite)) \/ (~ok /\ InvalidatesOnFailure(mutSite))
                     THEN TRUE ELSE refetching
    /\ UNCHANGED <<mutSite, mutStatus, mutError, uncaught, mutations, answers, cached>>
    /\ UNCHANGED <<httpVars, listVars, extVars>>

NextMut ==
    \/ \E ok \in BOOLEAN : StartMutation(ok)
    \/ \E expired \in BOOLEAN : MutationOK(expired)
    \/ \E s \in MutationFailures : MutationFail(s)
    \/ \E ok \in BOOLEAN : EarlierSettles(ok)
    \/ RefetchDone

\* ======================================================================
\* Part IV: normalizeList, the list services' reading of a response body
\* ======================================================================
\* A JavaScript value, as far as normalizeList looks at it: its type t, the
\* number n (of a number; 0/1 of a boolean), the elements items (of an array:
\* row ids; of a string: character codes).
Val(t, n, items) == [t |-> t, n |-> n, items |-> items]
Undefined == Val("undefined", 0, <<>>)
JsNull == Val("null", 0, <<>>)
Num(n) == Val("number", n, <<>>)
Str(cs) == Val("string", 0, cs)
Arr(rows) == Val("array", 0, rows)
Bool(b) == Val("boolean", IF b THEN 1 ELSE 0, <<>>)
AnObject == Val("object", 0, <<>>)

\* Arrays of up to MaxBody rows.
Arrays == { Arr([i \in 1..n |-> i]) : n \in 0..MaxBody }

\* The values a property of the body can hold (undefined when it is missing).
CountValues == {Undefined, JsNull, Num(0), Num(1), Num(MaxBody + 3), Str(<<51>>)}
ResultsValues == {Undefined, JsNull, Num(0), Str(<<97, 98>>), AnObject} \cup Arrays

\* A response body: a value and, when it is an object, its count and results.
Body(v, count, results) == [v |-> v, count |-> count, results |-> results]
Plain(v) == Body(v, Undefined, Undefined)
Bodies ==
    { Plain(v) : v \in {Undefined, JsNull, Bool(FALSE), Bool(TRUE), Num(0), Num(2),
                        Str(<<>>), Str(<<97>>)} \cup Arrays }
    \cup { Body(AnObject, c, r) : c \in CountValues, r \in ResultsValues }

\* Array.isArray(x)
isArray(x) == x.t = "array"

\* ToBoolean(x): the left operand of &&
ToBoolean(x) ==
    CASE x.t \in {"undefined", "null"} -> FALSE
      [] x.t = "boolean" -> x.n = 1
      [] x.t = "number" -> x.n # 0
      [] x.t = "string" -> x.items # <<>>
      [] OTHER -> TRUE

\* data.results / data.count: a TypeError on undefined and null, undefined on a
\* value that has no such property.
ThrowsOnRead(d) == d.v.t \in {"undefined", "null"}

\* a ?? b
Coalesce(a, b) == IF a.t \in {"undefined", "null"} THEN b ELSE a

Returned(total, results) == [called |-> TRUE, threw |-> FALSE, total |-> total, results |-> results]
Thrown == [called |-> TRUE, threw |-> TRUE, total |-> Undefined, results |-> Undefined]
NotCalled == [called |-> FALSE, threw |-> FALSE, total |-> Undefined, results |-> Undefined]

\* normalizeList with the second test reading data.results of whatever data is.
normalizeListUnguarded(d) ==
    IF isArray(d.v) THEN Returned(Num(Len(d.v.items)), d.v)
    ELSE IF ThrowsOnRead(d) THEN Thrown
    ELSE IF isArray(d.results)
         THEN Returned(Coalesce(d.count, Num(Len(d.results.items))), d.results)
    ELSE Returned(Num(0), Arr(<<>>))

\* function normalizeList<T>(data: any): Paged<T>
normalizeList(d) ==
    IF isArray(d.v) THEN Returned(Num(Len(d.v.items)), d.v)
    ELSE IF ToBoolean(d.v) /\ isArray(d.results)
         THEN Returned(Coalesce(d.count, Num(Len(d.results.items))), d.results)
    ELSE Returned(Num(0), Arr(<<>>))

NormInit == response = Plain(Undefined) /\ normalized = NotCalled

\* const { data } = await api.get(...): the body of the response arrives.
Receive(d) ==
    /\ normalized = NotCalled
    /\ response = Plain(Undefined)
    /\ d # Plain(Undefined)
    /\ response' = d
    /\ UNCHANGED <<normalized, httpVars, listVars, mutVars, loginVars, authVars, routeVars>>

\* return normalizeList<T>(data)
Normalize ==
    /\ normalized = NotCalled
    /\ normalized' = normalizeList(response)
    /\ UNCHANGED <<response, httpVars, listVars, mutVars, loginVars, authVars, routeVars>>

NextNorm ==
    \/ \E d \in Bodies : Receive(d)
    \/ Normalize

\* ======================================================================
\* Part V: the login form (pages/Auth/LoginPage.tsx)
\* ======================================================================
\* What the user types: '', ' ', ' a', 'ab' and '', '12345', '123456'.
UsuarioInputs == {<<>>, <<32>>, <<32, 97>>, <<97, 98>>}
PasswordInputs == {<<>>, <<49, 50, 51, 52, 53>>, <<49, 50, 51, 52, 53, 54>>}

\* The statuses login() rejects with (err?.response?.status).
LoginFailures == {Unauthorized, TooManyRequests, ServerError, NoResponse}

\* if (usuario.trim().length < 2 || password.length < 6)
TooShort(u, p) == Len(trim(u)) < 2 \/ Len(p) < 6

\* canSubmit without the loading test.
canSubmitWhileLoading(u, p, l) == trim(u) # <<>> /\ p # <<>>

\* const canSubmit = usuario.trim() !== '' && password !== '' && !loading
canSubmitOf(u, p, l) == trim(u) # <<>> /\ p # <<>> /\ ~l

canSubmit == canSubmitOf(usuario, password, loginLoading)

\* error === null
NoMessage == "null"

\* The message of the catch block.
LoginMessage(status) ==
    CASE status = Unauthorized -> "Usuario o contraseña incorrectos"
      [] status = TooManyRequests -> "Demasiados intentos. Intenta en un momento."
      [] OTHER -> "No se pudo iniciar sesión"

RemoveAt(seq, i) == [k \in 1..(Len(seq) - 1) |-> IF k < i THEN seq[k] ELSE seq[k + 1]]

LoginFormInit ==
    /\ usuario = <<>> /\ password = <<>> /\ remember = TRUE
    /\ touched = [u |-> FALSE, p |-> FALSE]
    /\ loginLoading = FALSE /\ loginError = NoMessage
    /\ loginCalls = <<>> /\ loginRequests = 0
    /\ lastUser = NullStr /\ navigated = FALSE

\* onUsuario
onUsuario(s) ==
    /\ ~navigated
    /\ s # usuario
    /\ usuario' = s
    /\ touched' = [touched EXCEPT !.u = TRUE]
    /\ UNCHANGED <<password, remember, loginLoading, loginError, loginCalls,
                   loginRequests, lastUser, navigated>>
    /\ UNCHANGED <<httpVars, listVars, mutVars, normVars, authVars, routeVars>>

\* onPassword
onPassword(s) ==
    /\ ~navigated
    /\ s # password
    /\ password' = s
    /\ touched' = [touched EXCEPT !.p = TRUE]
    /\ UNCHANGED <<usuario, remember, loginLoading, loginError, loginCalls,
                   loginRequests, lastUser, navigated>>
    /\ UNCHANGED <<httpVars, listVars, mutVars, normVars, authVars, routeVars>>

\* onChange of the checkbox: setRemember(e.target.checked)
setRemember ==
    /\ ~navigated
    /\ remember' = ~remember
    /\ UNCHANGED <<usuario, password, touched, loginLoading, loginError, loginCalls,
                   loginRequests, lastUser, navigated>>
    /\ UNCHANGED <<httpVars, listVars, mutVars, normVars, authVars, routeVars>>

\* The form's submit event (a click on the submit button or Enter in a field;
\* neither submits while the button is disabled), and onSubmit up to its await.
onSubmit ==
    /\ ~navigated
    /\ canSubmit
    /\ touched' = [u |-> TRUE, p |-> TRUE]
    /\ loginError' = NoMessage
    /\ IF TooShort(usuario, password)
       THEN UNCHANGED <<loginLoading, loginCalls, loginRequests>>
       ELSE /\ loginRequests < MaxLogins
            /\ loginLoading' = TRUE
            /\ loginCalls' = Append(loginCalls, [usuario |-> usuario, remember |-> remember])
            /\ loginRequests' = loginRequests + 1
    /\ UNCHANGED <<usuario, password, remember, lastUser, navigated>>
    /\ UNCHANGED <<httpVars, listVars, mutVars, normVars, authVars, routeVars>>

\* await login(...) resolved: the rest of the try block, then finally.
LoginResolved(i) ==
    /\ i \in 1..Len(loginCalls)
    /\ lastUser' = IF loginCalls[i].remember THEN loginCalls[i].usuario ELSE NullStr
    /\ navigated' = TRUE
    /\ loginLoading' = FALSE
    /\ loginCalls' = RemoveAt(loginCalls, i)
    /\ UNCHANGED <<usuario, password, remember, touched, loginError, loginRequests>>
    /\ UNCHANGED <<httpVars, listVars, mutVars, normVars, authVars, routeVars>>

\* await login(...) rejected: the catch block, then finally.
LoginRejected(i, status) ==
    /\ i \in 1..Len(loginCalls)
    /\ loginError' = LoginMessage(status)
    /\ loginLoading' = FALSE
    /\ loginCalls' = RemoveAt(loginCalls, i)
    /\ UNCHANGED <<usuario, password, remember, touched, loginRequests, lastUser, navigated>>
    /\ UNCHANGED <<httpVars, listVars, mutVars, normVars, authVars, routeVars>>

LoginSettles ==
    \E i \in 1..MaxLogins :
        LoginResolved(i) \/ \E status \in LoginFailures : LoginRejected(i, status)

NextLogin ==
    \/ \E s \in UsuarioInputs : onUsuario(s)
    \/ \E s \in PasswordInputs : onPassword(s)
    \/ setRemember
    \/ onSubmit
    \/ \E i \in 1..MaxLogins : LoginResolved(i)
    \/ \E i \in 1..MaxLogins, status \in LoginFailures : LoginRejected(i, status)

\* ======================================================================
\* Part VI: the session (context/AuthContext, services/auth.service.ts)
\* ======================================================================
\* A promise continuation (the rest of an async function after its await) runs
\* in the turn in which the awaited request settles. It is written as a step
\* of its own that runs before anything else does: while a continuation is
\* due, no other action is enabled, and the state in between is not a state
\* between two turns.
Awaited == {"me", "refreshAccess", "login", "logout", "bootLogout"}
Settled(r) == req[r].st \in {"resolved", "rejected"}
Due(r, p) == purpose[r] = p /\ Settled(r)
ContinuationDue == \E r \in Requests : purpose[r] \in Awaited /\ Settled(r)
Quiet == ~ContinuationDue

\* The config of the next request the application creates.
HasFree == \E r \in Requests : req[r].st = "new"
Free == CHOOSE r \in Requests : req[r].st = "new" /\ \A s \in Requests : s < r => req[s].st # "new"

\* api.get / api.post called by p with the in-memory token being token.
Call(p, token) ==
    /\ HasFree
    /\ req' = [req EXCEPT ![Free] = Dispatch(req[Free], token)]
    /\ purpose' = [purpose EXCEPT ![Free] = p]

\* The continuation of request r has run; it called p next.
CallAfter(r, p, token) ==
    /\ HasFree
    /\ req' = [req EXCEPT ![Free] = Dispatch(req[Free], token)]
    /\ purpose' = [purpose EXCEPT ![r] = "done", ![Free] = p]

\* a setAccessToken that does not assign
setAccessTokenNoop(t) == accessToken

\* api.ts 9-11: setAccessToken, as the value accessToken has after it
setAccessToken(t) == t

\* a boot() that skips finally
loadingKept == loading

\* part_011 40: finally { setLoading(false) }, as the value loading has after it
loadingAfterBoot == FALSE

\* a boot() that tries the refresh token first
BootBranchRefreshFirst(access, refresh) ==
    IF refresh # Null THEN "refreshAccess" ELSE IF access # Null THEN "me" ELSE "none"

\* part_011 24-34: which call boot() makes first
BootBranch(access, refresh) ==
    IF access # Null THEN "me" ELSE IF refresh # Null THEN "refreshAccess" ELSE "none"

AuthInit ==
    /\ user = Null                               \* part_011 17
    /\ loading = TRUE                            \* part_011 18
    /\ bootPc = "start"
    /\ purpose = [r \in Requests |-> "none"]
    /\ loggedOut = FALSE
    /\ bootSaw = [access |-> Null, refresh |-> Null]
    /\ bootCalls = <<>>
    /\ bootFailed = FALSE

\* The session after boot: signed in (u = 1) or not (u = Null).
AuthAfterBoot(u) ==
    /\ user = u
    /\ loading = FALSE
    /\ bootPc = "done"
    /\ purpose = [r \in Requests |-> "none"]
    /\ loggedOut = FALSE
    /\ bootSaw = [access |-> u, refresh |-> u]
    /\ bootCalls = IF u = Null THEN <<>> ELSE <<"me">>
    /\ bootFailed = FALSE

\* part_011 21-33: the mount effect runs boot() up to its first await.
BootStart ==
    /\ bootPc = "start"
    /\ bootSaw' = [access |-> stAccess, refresh |-> stRefresh]
    /\ IF BootBranch(stAccess, stRefresh) = "me"
       THEN \* lines 25-27: setAccessToken(access); await Auth.me()
            /\ accessToken' = setAccessToken(stAccess)
            /\ Call("me", stAccess)
            /\ bootPc' = "me"
            /\ bootCalls' = <<"me">>
            /\ UNCHANGED loading
       ELSE IF BootBranch(stAccess, stRefresh) = "refreshAccess"
       THEN \* lines 29-30: await Auth.refreshAccess() (auth.service.ts 37-39)
            /\ Call("refreshAccess", accessToken)
            /\ bootPc' = "refresh"
            /\ bootCalls' = <<"refreshAccess">>
            /\ UNCHANGED <<accessToken, loading>>
       ELSE \* line 40: finally
            /\ loading' = loadingAfterBoot
            /\ bootPc' = "done"
            /\ UNCHANGED <<accessToken, req, purpose, bootCalls>>
    /\ UNCHANGED <<stAccess, stRefresh, isRefreshing, pending, refreshInFlight, refreshCalls>>
    /\ UNCHANGED <<user, loggedOut, bootFailed>>
    /\ UNCHANGED <<listVars, mutVars, normVars, loginVars, routeVars>>

\* part_011 35-41: catch of boot(). Auth.logout() (auth.service.ts 46-53) posts
\* the logout when a refresh token is stored and clears the tokens at once
\* otherwise; then setUser(null) and finally.
BootCatch(r) ==
    /\ bootFailed' = TRUE
    /\ bootCalls' = Append(bootCalls, "logout")
    /\ IF stRefresh # Null
       THEN /\ CallAfter(r, "bootLogout", accessToken)
            /\ bootPc' = "logout"
            /\ UNCHANGED <<stAccess, stRefresh, accessToken, user, loading, loggedOut>>
       ELSE /\ stAccess' = Null /\ stRefresh' = Null
            /\ accessToken' = setAccessToken(Null)
            /\ user' = Null
            /\ loading' = loadingAfterBoot
            /\ bootPc' = "done"
            /\ loggedOut' = TRUE
            /\ purpose' = [purpose EXCEPT ![r] = "done"]
            /\ UNCHANGED req

\* await Auth.me() of boot() settled: part_011 27-28 / 32-33, 40.
MeSettled(r) ==
    /\ Due(r, "me")
    /\ IF req[r].st = "resolved"
       THEN /\ user' = 1
            /\ loading' = loadingAfterBoot
            /\ bootPc' = "done"
            /\ purpose' = [purpose EXCEPT ![r] = "done"]
            /\ UNCHANGED <<stAccess, stRefresh, accessToken, req, loggedOut, bootCalls, bootFailed>>
       ELSE BootCatch(r)
    /\ UNCHANGED <<isRefreshing, pending, refreshInFlight, refreshCalls, bootSaw>>
    /\ UNCHANGED <<listVars, mutVars, normVars, loginVars, routeVars>>

\* await api.post('/auth/refresh/') of refreshAccess() settled:
\* auth.service.ts 40-43, then part_011 31-32.
RefreshAccessSettled(r) ==
    /\ Due(r, "refreshAccess")
    /\ IF req[r].st = "resolved"
       THEN LET newAccess == NewAccess(refreshCalls) IN
            /\ stAccess' = newAccess
            /\ accessToken' = setAccessToken(newAccess)
            /\ CallAfter(r, "me", newAccess)
            /\ bootPc' = "me"
            /\ bootCalls' = Append(bootCalls, "me")
            /\ UNCHANGED <<stRefresh, user, loading, loggedOut, bootFailed>>
       ELSE BootCatch(r)
    /\ UNCHANGED <<isRefreshing, pending, refreshInFlight, refreshCalls, bootSaw>>
    /\ UNCHANGED <<listVars, mutVars, normVars, loginVars, routeVars>>

\* await api.post('/auth/logout/') of logout() settled, with either outcome:
\* auth.service.ts 51-52, then setUser(null) (part_011 37 / 54) and, in
\* boot(), finally.
LogoutSettled(r) ==
    /\ Due(r, "logout") \/ Due(r, "bootLogout")
    /\ stAccess' = Null /\ stRefresh' = Null
    /\ accessToken' = setAccessToken(Null)
    /\ user' = Null
    /\ loggedOut' = TRUE
    /\ purpose' = [purpose EXCEPT ![r] = "done"]
    /\ IF purpose[r] = "bootLogout"
       THEN loading' = loadingAfterBoot /\ bootPc' = "done"
       ELSE UNCHANGED <<loading, bootPc>>
    /\ UNCHANGED <<isRefreshing, pending, req, refreshInFlight, refreshCalls>>
    /\ UNCHANGED <<bootSaw, bootCalls, bootFailed>>
    /\ UNCHANGED <<listVars, mutVars, normVars, loginVars, routeVars>>

\* await api.post('/auth/login/') of login() settled: auth.service.ts 7-20 and
\* part_011 49-50; a rejection goes to LoginPage's catch.
LoginSettled(r) ==
    /\ Due(r, "login")
    /\ purpose' = [purpose EXCEPT ![r] = "done"]
    /\ IF req[r].st = "resolved"
       THEN /\ stAccess' = 1 /\ stRefresh' = 1
            /\ accessToken' = setAccessToken(1)
            /\ user' = 1
            /\ loggedOut' = FALSE
       ELSE UNCHANGED <<stAccess, stRefresh, accessToken, user, loggedOut>>
    /\ UNCHANGED <<isRefreshing, pending, req, refreshInFlight, refreshCalls>>
    /\ UNCHANGED <<loading, bootPc, bootSaw, bootCalls, bootFailed>>
    /\ UNCHANGED <<listVars, mutVars, normVars, loginVars, routeVars>>

\* PublicRoute shows the login page, PrivateRoute the private pages.
ShowsLogin == ~loading /\ user = Null
ShowsPrivate == ~loading /\ user # Null

\* LoginPage submits (one login at a time): auth.service.ts 6.
LoginSubmit ==
    /\ Quiet
    /\ ShowsLogin
    /\ \A r \in Requests : purpose[r] # "login"
    /\ Call("login", accessToken)
    /\ UNCHANGED <<accessToken, stAccess, stRefresh, isRefreshing, pending,
                   refreshInFlight, refreshCalls>>
    /\ UNCHANGED <<user, loading, bootPc, loggedOut, bootSaw, bootCalls, bootFailed>>
    /\ UNCHANGED <<listVars, mutVars, normVars, loginVars, routeVars>>

\* MainLayout's doLogout: logout() of the context, Auth.logout() up to its
\* await (auth.service.ts 47-49), or to its end when no refresh token is stored.
LogoutClick ==
    /\ Quiet
    /\ ShowsPrivate
    /\ IF stRefresh # Null
       THEN /\ Call("logout", accessToken)
            /\ UNCHANGED <<stAccess, stRefresh, accessToken, user, loggedOut>>
       ELSE /\ stAccess' = Null /\ stRefresh' = Null
            /\ accessToken' = setAccessToken(Null)
            /\ user' = Null
            /\ loggedOut' = TRUE
            /\ UNCHANGED <<req, purpose>>
    /\ UNCHANGED <<isRefreshing, pending, refreshInFlight, refreshCalls>>
    /\ UNCHANGED <<loading, bootPc, bootSaw, bootCalls, bootFailed>>
    /\ UNCHANGED <<listVars, mutVars, normVars, loginVars, routeVars>>

\* A private page sends a request of its own (a query or a mutation).
DataRequest ==
    /\ Quiet
    /\ ShowsPrivate
    /\ Call("data", accessToken)
    /\ UNCHANGED <<accessToken, stAccess, stRefresh, isRefreshing, pending,
                   refreshInFlight, refreshCalls>>
    /\ UNCHANGED <<user, loading, bootPc, loggedOut, bootSaw, bootCalls, bootFailed>>
    /\ UNCHANGED <<listVars, mutVars, normVars, loginVars, routeVars>>

\* The responses, handled by the interceptors of Part I.
Responds ==
    \/ \E r \in Requests : RespondOK(r)
    \/ \E r \in Requests, s \in ErrorStatuses : RespondError(r, s)
    \/ \E r \in Requests : RefreshOK(r)
    \/ \E r \in Requests : RefreshFail(r)

Continues ==
    \/ \E r \in Requests : MeSettled(r)
    \/ \E r \in Requests : RefreshAccessSettled(r)
    \/ \E r \in Requests : LogoutSettled(r)
    \/ \E r \in Requests : LoginSettled(r)

\* What happens without the user: the mount effect, the responses and the
\* continuations.
BootOrNetwork ==
    \/ Quiet /\ BootStart
    \/ Quiet /\ Responds
    \/ Continues

NextAuth ==
    \/ BootOrNetwork
    \/ LoginSubmit
    \/ LogoutClick
    \/ DataRequest

\* ======================================================================
\* Part VII: the routes (routes/AppRouter.tsx, PrivateRoute.tsx, PublicRoute.tsx)
\* ======================================================================
\* The paths visited: the login page, the index and a list page (both under
\* PrivateRoute and MainLayout), and a path no route matches.
LoginPath == "/login"
IndexPath == "/"
PrivatePaths == {IndexPath, "/copropietarios"}
Paths == {LoginPath, "/desconocida"} \cup PrivatePaths

\* What a route renders: the loader, its content (Outlet) or a redirect.
NavigateTo(to) == [el |-> "Navigate", to |-> to]
Element(el) == [el |-> el, to |-> ""]

\* a PrivateRoute that does not wait for boot
PrivateRouteIgnoringLoading(l, u) ==
    IF u = Null THEN NavigateTo(LoginPath) ELSE Element("Outlet")

\* PrivateRoute.tsx 5-10
PrivateRoute(l, u) ==
    IF l THEN Element("Loader")
    ELSE IF u = Null THEN NavigateTo(LoginPath)
    ELSE Element("Outlet")

\* PublicRoute.tsx 5-10
PublicRoute(l, u) ==
    IF l THEN Element("Loader")
    ELSE IF u # Null THEN NavigateTo(IndexPath)
    ELSE Element("Outlet")

\* AppRouter.tsx 31-67: the route that matches path, rendered with the auth
\* context's loading and user. The Outlet of the public route is LoginPage,
\* that of a private route is MainLayout with the page.
AppRouter(path, l, u) ==
    IF path = LoginPath
    THEN IF PublicRoute(l, u) = Element("Outlet") THEN Element("LoginPage")
         ELSE PublicRoute(l, u)
    ELSE IF path \in PrivatePaths
    THEN IF PrivateRoute(l, u) = Element("Outlet") THEN Element("MainLayout")
         ELSE PrivateRoute(l, u)
    ELSE Element("NotFoundPage")

\* What is on screen.
Shown == AppRouter(pathname, loading, user)

RouteInit == pathname = IndexPath

\* <Navigate to=... replace />: its effect changes the location.
Redirect ==
    /\ Quiet
    /\ Shown.el = "Navigate"
    /\ pathname' = Shown.to
    /\ UNCHANGED <<httpVars, listVars, mutVars, normVars, loginVars, authVars>>

\* The user goes to another path (a link of the sidebar, back / forward).
Visit(path) ==
    /\ Quiet
    /\ path # pathname
    /\ pathname' = path
    /\ UNCHANGED <<httpVars, listVars, mutVars, normVars, loginVars, authVars>>

\* The session runs under the router: the login form is usable where
\* LoginPage is on screen, logout and the pages' requests where MainLayout is.
NextRoute ==
    \/ BootOrNetwork
    \/ Shown = Element("LoginPage") /\ LoginSubmit
    \/ Shown = Element("MainLayout") /\ LogoutClick
    \/ Shown = Element("MainLayout") /\ DataRequest
    \/ Redirect
    \/ \E path \in Paths : Visit(path)

\* ================================================================ specs
\* The parts a specification does not run stay idle.
ExtInit == NormInit /\ LoginFormInit /\ RouteInit

\* Part I runs with no list page interaction; Part II runs signed in, with no
\* HTTP traffic other than the page's own queries.
Init ==
    /\ HttpInit /\ ListInit("copropietarios") /\ MutInit("CopropietariosListPage.del")
    /\ ExtInit
    /\ AuthInit

Spec == Init /\ [][Next]_vars

\* The refresh POST settles (the assumption under which requests are not left
\* waiting): axios resolves or rejects the promise awaited at api.ts 54.
RefreshSettles == \E r \in Requests : RefreshOK(r) \/ RefreshFail(r)

FairSpec == Init /\ [][Next]_vars /\ WF_vars(RefreshSettles)

InitList ==
    /\ HttpInit /\ stAccess = 1 /\ stRefresh = 1
    /\ \E lp \in ListPages : ListInit(lp)
    /\ MutInit("CopropietariosListPage.del")
    /\ ExtInit
    /\ AuthAfterBoot(1)

SpecList == InitList /\ [][NextList]_vars

InitMut ==
    /\ HttpInit /\ stAccess = 1 /\ stRefresh = 1
    /\ ListInit("copropietarios")
    /\ \E site \in MutSites : MutInit(site)
    /\ ExtInit
    /\ AuthAfterBoot(1)

SpecMut == InitMut /\ [][NextMut]_vars

\* The fetch of the list query completes.
FairSpecMut == InitMut /\ [][NextMut]_vars /\ WF_vars(RefetchDone)

InitNorm ==
    /\ HttpInit /\ stAccess = 1 /\ stRefresh = 1
    /\ ListInit("copropietarios")
    /\ MutInit("CopropietariosListPage.del")
    /\ ExtInit
    /\ AuthAfterBoot(1)

SpecNorm == InitNorm /\ [][NextNorm]_vars

InitLogin ==
    /\ HttpInit /\ stAccess = Null /\ stRefresh = Null
    /\ ListInit("copropietarios")
    /\ MutInit("CopropietariosListPage.del")
    /\ ExtInit
    /\ AuthAfterBoot(Null)

\* login() settles: its request is answered, or the refresh it waits for is
\* (services/api.ts settles every request of a window when the refresh does).
SpecLogin == InitLogin /\ [][NextLogin]_vars /\ WF_vars(LoginSettles)

\* The application is loaded with any stored tokens.
SpecAuth == Init /\ [][NextAuth]_vars

\* Every network call settles, and the continuation of a settled call runs.
FairSpecAuth == Init /\ [][NextAuth]_vars /\ WF_vars(BootOrNetwork)

\* The application is opened at any path, with any stored tokens.
InitRoute ==
    /\ HttpInit /\ ListInit("copropietarios") /\ MutInit("CopropietariosListPage.del")
    /\ NormInit /\ LoginFormInit
    /\ AuthInit
    /\ pathname \in Paths

SpecRoute == InitRoute /\ [][NextRoute]_vars

\* ================================================================ claims
\* This step handled an error response with status s for request r: the error
\* object <<r, dispatch, s>> was closed over (err) or handed to the caller (rej).
GotError(r, s) ==
    /\ req[r].st = "flight"
    /\ req'[r] # req[r]
    /\ LET e == <<r, req[r].sends, s>>
       IN req'[r].rej = e \/ req'[r].err = e

\* This step handled the first 401 of request r (r was not marked _retry).
First401(r) == GotError(r, Unauthorized) /\ ~req[r].retry

Tokens == 1..(NReq + 1)

\* C1: at most one refresh POST of the interceptor is in flight at any time, and a
\* 401 of a not-yet-retried request that arrives while isRefreshing is true only
\* appends its callback to pending: no refresh POST is issued for it.
C1_OneRefreshInFlight ==
    [][ /\ refreshInFlight' <= 1
        /\ \A r \in Requests :
              First401(r) /\ isRefreshing =>
                 /\ pending' = Append(pending, r)
                 /\ req'[r].st = "queued"
                 /\ refreshCalls' = refreshCalls
                 /\ refreshInFlight' = refreshInFlight ]_vars

\* C1 witness: a refresh is in flight and a second 401 has been queued behind it.
C1_Witness ==
    isRefreshing /\ refreshInFlight = 1 /\ Len(pending) >= 1

\* C2 as stated: for every access token, the 401s of the requests sent with it
\* make the interceptor issue at most one refresh POST, whatever the order of
\* the responses (a 401 that arrives after the refresh completed included).
C2_OneRefreshPerToken ==
    \A t \in Tokens :
        Cardinality({r \in Requests : req[r].trig /\ req[r].tok1 = t}) <= 1

\* C2 as amended: requests sent with the same access token share one refresh POST
\* as long as their 401 arrives while that refresh is in flight; a first 401 that
\* arrives when no refresh is in flight (also after an earlier refresh for the
\* same token has completed) starts a refresh POST of its own, if a refresh
\* token is stored.
C2_OneRefreshPerWindow ==
    [][ \A r \in Requests :
          First401(r) =>
             /\ (\E o \in Requests : req[o].st = "refreshing")
                   => ~req'[r].trig /\ refreshCalls' = refreshCalls
             /\ (\A o \in Requests : req[o].st # "refreshing") /\ stRefresh # Null
                   => req'[r].trig /\ refreshCalls' = refreshCalls + 1 ]_vars

\* C2 witness: two requests sent with the same token, one refresh served both.
C2_Witness ==
    \E r, o \in Requests :
        /\ r # o /\ req[r].tok1 = req[o].tok1 /\ req[r].tok1 # Null
        /\ req[r].trig /\ ~req[o].trig /\ req[o].retry
        /\ req[r].sends = 2 /\ req[o].sends = 2
        /\ refreshCalls = 1

\* C3: every request queued while a refresh is in flight is settled when that
\* refresh finishes: replayed once with the new token when the refresh succeeded,
\* rejected with its own original error when it failed; given that the refresh
\* call settles, no queued request stays queued forever (the queued requests are
\* exactly those in pending, and a non-empty pending is emptied); none is
\* settled twice.
C3_QueuedAreSettled ==
    /\ [][ \A r \in Requests :
             /\ req[r].st = "queued" /\ isRefreshing /\ ~isRefreshing' =>
                  IF accessToken' # Null
                  THEN req'[r] = [req[r] EXCEPT !.st = "flight",
                                                !.hdr = accessToken',
                                                !.sends = 2]
                  ELSE req'[r] = [req[r] EXCEPT !.st = "rejected",
                                                !.rej = <<r, 1, Unauthorized>>,
                                                !.settles = 1]
             /\ req'[r].settles <= 1
             /\ req'[r].st = "queued" <=> \E i \in 1..Len(pending') : pending'[i] = r ]_vars
    /\ (pending # <<>>) ~> (pending = <<>>)

\* C3 witness: a queued request was replayed with the new token after a
\* successful refresh and has been answered.
C3_Witness ==
    \E r \in Requests :
        /\ req[r].retry /\ ~req[r].trig /\ req[r].sends = 2
        /\ req[r].st = "resolved" /\ req[r].hdr = stAccess /\ req[r].hdr # req[r].tok1

\* C4: a request is dispatched at most twice (the original and one replay); a
\* request already marked _retry that gets 401 again is rejected with that
\* error and no refresh is started for it.
C4_ReplayedAtMostOnce ==
    [][ \A r \in Requests :
          /\ req'[r].sends <= 2
          /\ req[r].retry /\ GotError(r, Unauthorized) =>
                /\ req'[r] = [req[r] EXCEPT !.st = "rejected",
                                             !.rej = <<r, 2, Unauthorized>>,
                                             !.settles = 1]
                /\ UNCHANGED <<accessToken, stAccess, stRefresh, isRefreshing,
                               pending, refreshInFlight, refreshCalls>> ]_vars

\* C4 witness: a replayed request got 401 again and was rejected with that error.
C4_Witness ==
    \E r \in Requests :
        req[r].st = "rejected" /\ req[r].retry /\ req[r].rej = <<r, 2, Unauthorized>>

\* C5: an error response whose status is not 401 (or with no response at all) is
\* rejected with the same error, and nothing else changes: no refresh POST, and
\* the in-memory token, the stored tokens, isRefreshing and pending stay as
\* they are.
C5_OtherErrorsNoRecovery ==
    [][ \A r \in Requests, s \in ErrorStatuses \ {Unauthorized} :
          GotError(r, s) =>
             /\ req' = [req EXCEPT ![r] = [req[r] EXCEPT
                                                !.st = "rejected",
                                                !.rej = <<r, req[r].sends, s>>,
                                                !.settles = req[r].settles + 1]]
             /\ UNCHANGED <<accessToken, stAccess, stRefresh, isRefreshing,
                            pending, refreshInFlight, refreshCalls>> ]_vars

\* C5 witness: a request failed without a response while tokens were held and a
\* refresh was running, and was rejected.
C5_Witness ==
    \E r \in Requests :
        /\ req[r].st = "rejected" /\ req[r].rej = <<r, 1, NoResponse>>
        /\ accessToken # Null /\ isRefreshing

\* C6: every dispatch through the shared client, a replay included, carries the
\* in-memory access token of that moment as its bearer token, and no
\* Authorization header when the in-memory token is null.
C6_BearerIsMemoryToken ==
    [][ \A r \in Requests :
          req'[r].sends # req[r].sends =>
             /\ req'[r].st = "flight"
             /\ req'[r].hdr = accessToken' ]_vars

\* C6 witness: a replay is in flight with the refreshed in-memory token, which
\* differs from the token of its first dispatch.
C6_Witness ==
    \E r \in Requests :
        /\ req[r].st = "flight" /\ req[r].sends = 2
        /\ req[r].hdr = accessToken /\ req[r].hdr # req[r].tok1 /\ req[r].tok1 # Null

\* ---------------------------------------------------------------------
\* C7. A failed delete, create or update started from a list page or a form
\* dialog is caught at its call site and shown to the user: whenever a
\* mutation has failed, a message about it is on screen and no rejection has
\* left the handler uncaught.
C7_FailuresAreCaughtAndShown ==
    mutStatus = "error" => errorShown /\ ~uncaught

\* ---------------------------------------------------------------------
\* Folding of case, and containment without regard to case, stated on the
\* code units.
Fold(c) == IF c \in 65..90 THEN c + 32 ELSE c

ContainsFolded(text, needle) ==
    \E k \in 0..(Len(text) - Len(needle)) :
        \A i \in 1..Len(needle) : Fold(text[k + i]) = Fold(needle[i])

\* Row r has a searchable text that contains the debounced query
RowMatchesQuery(r) ==
    LET texts == SearchTexts(listPage, CopCatalog, r)
    IN  \E i \in 1..Len(texts) : ContainsFolded(texts[i], qDebounced)

\* The co-owner of a row of the Visitantes page matches the co-owner box
RowMatchesCoOwner(r) == ContainsFolded(VisitantesCopFull(CopCatalog, r), copNameDebounced)

PositionIn(s, r) == CHOOSE i \in 1..Len(s) : s[i] = r

\* f holds exactly the rows of all that are in Kept, once each, in the order of all
IsSelection(f, all, Kept) ==
    /\ {f[i] : i \in 1..Len(f)} = Kept
    /\ Len(f) = Cardinality(Kept)
    /\ \A i, j \in 1..Len(f) : i < j => PositionIn(all, f[i]) < PositionIn(all, f[j])

\* C8 as stated: the filtered rows are the fetched rows when the debounced
\* query is empty, and otherwise exactly the fetched rows with a searchable
\* text containing the trimmed query without regard to case, in fetched order.
C8_FilteredByQuery ==
    /\ qDebounced = trim(qDebounced)
    /\ IF qDebounced = <<>>
       THEN filtered = data
       ELSE IsSelection(filtered, data,
                        {data[i] : i \in {j \in 1..Len(data) : RowMatchesQuery(data[j])}})

\* C8, amended: on the Visitantes page a non-empty debounced co-owner text
\* selects as well. The filtered rows are exactly the fetched rows that match
\* the debounced query (when it is not empty) and, on the Visitantes page,
\* whose co-owner name contains the debounced co-owner text (when it is not
\* empty), in fetched order; with both texts empty they are the fetched rows.
C8_FilteredByQueryAndCoOwner ==
    /\ qDebounced = trim(qDebounced)
    /\ copNameDebounced = trim(copNameDebounced)
    /\ listPage # "visitantes" => copNameDebounced = <<>>
    /\ qDebounced = <<>> /\ copNameDebounced = <<>> => filtered = data
    /\ IsSelection(filtered, data,
                   {data[i] : i \in {j \in 1..Len(data) :
                        /\ qDebounced # <<>> => RowMatchesQuery(data[j])
                        /\ copNameDebounced # <<>> => RowMatchesCoOwner(data[j])}})

\* Both boxes select on the Visitantes page: some rows stay, some go
C8_Witness ==
    /\ listPage = "visitantes"
    /\ qDebounced # <<>> /\ copNameDebounced # <<>>
    /\ filtered # <<>>
    /\ Len(filtered) < Len(data)

\* ---------------------------------------------------------------------
\* The order of the selected field: a's value comes strictly before b's
\* (the page's comparator, ascending)
FieldBefore(a, b) == cmp(listPage, [desc |-> FALSE, field |-> ordering.field], a, b) < 0

Occurrences(s, r) == Cardinality({i \in 1..Len(s) : s[i] = r})

\* C9. sorted holds the rows of filtered, each as often as filtered does, and
\* is non-decreasing in the selected field for 'field' and non-increasing for
\* '-field': no row stands before a row that the order puts before it.
C9_SortedIsOrderedPermutation ==
    /\ Len(sorted) = Len(filtered)
    /\ \A i \in 1..Len(filtered) : Occurrences(sorted, filtered[i]) = Occurrences(filtered, filtered[i])
    /\ \A i, j \in 1..Len(sorted) :
          i < j => IF ordering.desc
                   THEN ~FieldBefore(sorted[i], sorted[j])
                   ELSE ~FieldBefore(sorted[j], sorted[i])

\* ---------------------------------------------------------------------
\* The rows of sorted at the positions of page p, stated by position
Window(p) ==
    LET first == (p - 1) * pageSize + 1
        last == IF p * pageSize <= Len(sorted) THEN p * pageSize ELSE Len(sorted)
    IN  [i \in 1..(last - first + 1) |-> sorted[first + i - 1]]

RECURSIVE ConcatPages(_)
ConcatPages(p) ==
    IF p = 0 THEN <<>> ELSE ConcatPages(p - 1) \o pageItemsOf(sorted, p, pageSize)

\* C10. The pages partition the sorted list: pages is the least number >= 1 of
\* pages of pageSize rows that hold all rows, page p of 1..pages shows the rows
\* sorted[(p-1)*pageSize .. p*pageSize-1] (0-based), the pages put one after
\* another are sorted, and every page but the last has exactly pageSize rows.
C10_PagesPartitionSorted ==
    /\ pages >= 1
    /\ pages * pageSize >= Len(sorted)
    /\ pages > 1 => (pages - 1) * pageSize < Len(sorted)
    /\ \A p \in 1..pages :
          /\ pageItemsOf(sorted, p, pageSize) = Window(p)
          /\ p < pages => Len(pageItemsOf(sorted, p, pageSize)) = pageSize
    /\ ConcatPages(pages) = sorted
    /\ page \in 1..pages => pageItems = Window(page)

\* The last of three pages is shown, with fewer rows than a page holds
C10_Witness ==
    /\ pages >= 3
    /\ page = pages
    /\ pageItems # <<>>
    /\ Len(pageItems) < pageSize

\* ---------------------------------------------------------------- C11
\* C11: normalizeList returns for every response body, never throwing, and
\* `results` is an array: a bare array gives itself and total = its length; an
\* object whose results is an array gives that array and total = count when
\* count is neither null nor undefined, results.length otherwise; anything
\* else gives total 0 and the empty array.
IsEnvelope(d) == d.v.t = "object" /\ d.results.t = "array"
CountPresent(d) == d.count.t \notin {"undefined", "null"}
C11_NormalizeListTotal ==
    normalized.called =>
        /\ ~normalized.threw
        /\ normalized.results.t = "array"
        /\ normalized.total =
             CASE response.v.t = "array" -> Num(Len(response.v.items))
               [] IsEnvelope(response) /\ CountPresent(response) -> response.count
               [] IsEnvelope(response) /\ ~CountPresent(response) ->
                      Num(Len(response.results.items))
               [] OTHER -> Num(0)
        /\ normalized.results =
             CASE response.v.t = "array" -> response.v
               [] IsEnvelope(response) -> response.results
               [] OTHER -> Arr(<<>>)

\* An envelope without count has been normalised.
C11_Witness ==
    /\ normalized.called
    /\ IsEnvelope(response)
    /\ response.count = Undefined
    /\ Len(response.results.items) = MaxBody

\* ---------------------------------------------------------------- C12
\* C12: a submit of the login form sends no login request when the trimmed
\* user name has fewer than 2 characters or the password fewer than 6; no more
\* than one login request is in flight at a time; and whenever `loading` is
\* true it becomes false again (every attempt ends with loading false).
SendsLogin == loginRequests' = loginRequests + 1
C12_NoRequestWhenTooShort ==
    (Len(trim(usuario)) < 2 \/ Len(password) < 6) => ~SendsLogin
C12_AttemptEndsNotLoading ==
    (Len(loginCalls') < Len(loginCalls)) => ~loginLoading'
C12_LoginFormGuards ==
    /\ [](Len(loginCalls) <= 1)
    /\ [][C12_NoRequestWhenTooShort /\ C12_AttemptEndsNotLoading]_vars
    /\ (loginLoading ~> ~loginLoading)

\* A login attempt was rejected and a second one is in flight.
C12_Witness ==
    /\ loginRequests = 2
    /\ Len(loginCalls) = 1
    /\ loginLoading

\* ---------------------------------------------------------------- C13
\* C13: the cached list changes only by a fetch of the list query (no row is
\* added, edited or removed locally; a failed or cancelled mutation leaves it
\* as it was); every successful create, update or delete invalidates the list
\* query; and a cached list that predates a mutation the server has applied
\* is eventually replaced by a freshly fetched one.
MutationSucceeds == mutStatus = "pending" /\ mutStatus' = "success"
C13_CacheChangesByFetchOnly == (cached' # cached) => (refetching /\ cached' = serverList)
C13_SuccessInvalidates == MutationSucceeds => refetching'
C13_FreshAfterMutation ==
    /\ [][C13_CacheChangesByFetchOnly /\ C13_SuccessInvalidates]_vars
    /\ ((cached # serverList) ~> (cached = serverList))

\* ---------------------------------------------------------------- C14
\* C14: when the interceptor's refresh fails (no refresh token is stored, or
\* the refresh POST is rejected), in that same turn the stored access and
\* refresh tokens are removed, the in-memory token becomes null, every queued
\* request is rejected, the triggering request is rejected with its own 401
\* error, and isRefreshing is false.
RefreshFailsFor(r) ==
    \/ req[r].st = "refreshing" /\ req'[r].st = "rejected"
    \/ req[r].st = "flight" /\ ~req[r].retry /\ req'[r].retry /\ req'[r].st = "rejected"
InQueue(w) == \E i \in 1..Len(pending) : pending[i] = w
C14_RefreshFailureStep ==
    \A r \in Requests :
        RefreshFailsFor(r) =>
            /\ stAccess' = Null /\ stRefresh' = Null
            /\ accessToken' = Null
            /\ \A w \in Requests : InQueue(w) => req'[w].st = "rejected"
            /\ req'[r].rej = <<r, req[r].sends, Unauthorized>>
            /\ ~isRefreshing'
            /\ pending' = <<>>
C14_RefreshFailureClearsSession == [][C14_RefreshFailureStep]_vars

\* A refresh POST failed: its trigger and a request that had been queued
\* behind it are both rejected and the tokens are gone.
C14_Witness ==
    \E r, w \in Requests :
        /\ req[r].trig /\ req[r].st = "rejected"
        /\ w # r /\ req[w].retry /\ ~req[w].trig /\ req[w].st = "rejected"
        /\ req[w].rej = req[w].err
        /\ accessToken = Null /\ stAccess = Null /\ stRefresh = Null

\* ---------------------------------------------------------------- C18
\* C18: between turns, isRefreshing false implies that the pending queue is
\* empty.
C18_QueueOnlyWhileRefreshing == ~isRefreshing => pending = <<>>

\* A request was queued behind a refresh and replayed when it succeeded; the
\* flag is reset.
C18_Witness ==
    /\ ~isRefreshing
    /\ \E w \in Requests : req[w].retry /\ ~req[w].trig /\ req[w].sends = 2

\* ---------------------------------------------------------------- C15
\* C15: once a logout() has completed, and until a login succeeds, the stored
\* access token, the stored refresh token and the in-memory token are absent
\* between turns, whatever requests and refreshes were in flight at the logout.
C15_TokensAbsentAfterLogout ==
    (Quiet /\ loggedOut) => (stAccess = Null /\ stRefresh = Null /\ accessToken = Null)

\* ---------------------------------------------------------------- C16
\* C16: between turns the in-memory access token equals the stored access
\* token (both absent together), after any sequence of boot, login, logout,
\* refresh success and refresh failure.
C16_MemoryMirrorsStorage == Quiet => accessToken = stAccess

\* The application started with no tokens and a login has succeeded.
C16_Witness ==
    /\ Quiet
    /\ bootSaw = [access |-> Null, refresh |-> Null] /\ bootPc = "done"
    /\ user # Null
    /\ accessToken # Null /\ accessToken = stAccess

\* ---------------------------------------------------------------- C17
\* C17: between turns, when user is non-null and no login or logout is in
\* progress, an access token is held in memory.
LoginOrLogoutInProgress ==
    \E r \in Requests : purpose[r] \in {"login", "logout", "bootLogout"}
C17_UserImpliesToken ==
    (Quiet /\ user # Null /\ ~LoginOrLogoutInProgress) => accessToken # Null

\* ---------------------------------------------------------------- C19
\* C19: boot() calls me() first when an access token is stored, refreshAccess()
\* and then me() when only a refresh token is stored, and nothing when neither
\* is; when a call of it fails it logs out, and boot() then ends with the
\* stored and in-memory tokens cleared and user null; otherwise it ends with
\* user set (tokens stored) or, with no tokens, with user null and no request.
BootCallsAllowed ==
    IF bootSaw.access # Null
    THEN {<<"me">>, <<"me", "logout">>}
    ELSE IF bootSaw.refresh # Null
    THEN {<<"refreshAccess">>, <<"refreshAccess", "me">>, <<"refreshAccess", "logout">>,
          <<"refreshAccess", "me", "logout">>}
    ELSE {<<>>}
C19_BootCalls == bootPc # "start" => bootCalls \in BootCallsAllowed
C19_BootEnds ==
    (bootPc # "done" /\ bootPc' = "done") =>
        IF bootFailed'
        THEN /\ stAccess' = Null /\ stRefresh' = Null /\ accessToken' = Null
             /\ user' = Null
             /\ bootCalls'[Len(bootCalls')] = "logout"
        ELSE IF bootSaw'.access = Null /\ bootSaw'.refresh = Null
        THEN user' = Null /\ \A r \in Requests : req'[r].st = "new"
        ELSE /\ user' # Null
             /\ bootCalls'[Len(bootCalls')] = "me"
             /\ accessToken' # Null
C19_BootValidatesSession == [](C19_BootCalls) /\ [][C19_BootEnds]_vars

\* boot() refreshed, its me() failed and it logged out.
C19_Witness ==
    /\ bootPc = "done"
    /\ bootCalls = <<"refreshAccess", "me", "logout">>
    /\ user = Null /\ stAccess = Null /\ stRefresh = Null

\* ---------------------------------------------------------------- C20
\* C20: loading of AuthProvider is true at the start, never goes from false to
\* true, and (every network call settling) is eventually false.
C20_BootFinishes ==
    /\ loading = TRUE
    /\ [][loading = FALSE => loading' = FALSE]_vars
    /\ <>(loading = FALSE)

\* boot() has finished after a failed me() and a logout.
C20_Witness ==
    /\ ~loading
    /\ bootCalls = <<"me", "logout">>
    /\ \E r \in Requests : purpose[r] = "done" /\ req[r].st = "rejected"

\* ---------------------------------------------------------------- C21
\* C21: the content of a private route is on screen only when loading is
\* false and user is non-null; the login page only when loading is false and
\* user is null; while loading is true neither of them nor a redirect is
\* produced; with loading false, a private path without a user renders the
\* redirect to /login and /login with a user renders the redirect to /.
C21_RouteGuards ==
    /\ Shown = Element("MainLayout") => (loading = FALSE /\ user # Null)
    /\ Shown = Element("LoginPage") => (loading = FALSE /\ user = Null)
    /\ loading = TRUE => Shown \in {Element("Loader"), Element("NotFoundPage")}
    /\ (loading = FALSE /\ user = Null /\ pathname \in PrivatePaths)
           => Shown = NavigateTo(LoginPath)
    /\ (loading = FALSE /\ user # Null /\ pathname = LoginPath)
           => Shown = NavigateTo(IndexPath)

\* After a logout on a private page the redirect to /login is rendered.
C21_Witness ==
    /\ loggedOut /\ user = Null /\ loading = FALSE
    /\ pathname = "/copropietarios"
    /\ Shown = NavigateTo(LoginPath)

\* C22: on a list page, once the reset effect has run, the page number lies
\* between 1 and the number of pages, and a list with rows after filtering
\* never shows a table page without rows.
C22_PageWithinPages ==
    ~effectPending =>
        /\ 1 <= page
        /\ page <= pages
        /\ (sorted # <<>> => pageItems # <<>>)

\* C23: whenever the debounced search text, the page size or the ordering of
\* a list page changes, the page number is 1 again before rows are shown: no
\* frame is painted with the changed value and a page number other than 1.
C23_ResetBeforeShown ==
    painted => page = 1

\* ---------------------------------------------------------------------
\* A step in which a confirm dialog is answered, and its answer
DialogAnswered == Len(answers') = Len(answers) + 1
Accepted == DialogAnswered /\ answers'[Len(answers')]
Declined == DialogAnswered /\ ~answers'[Len(answers')]

\* A DELETE request is sent only by a step that accepts the dialog, and a step
\* that declines it changes nothing but the record of the answer.
ConfirmGuardsDelete ==
    /\ (mutSite \in DeleteSites /\ inFlight' > inFlight) => Accepted
    /\ Declined =>
         /\ UNCHANGED <<mutSite, mutStatus, mutError, errorShown, uncaught, mutations,
                        invalidations, inFlight, serverList, cached, refetching>>
         /\ UNCHANGED <<httpVars, listVars, extVars>>

\* On the given pages the delete buttons are disabled while a delete is in
\* flight, and at most one is.
OneDeleteInFlight(sites) ==
    mutSite' \in sites =>
        /\ inFlight' <= 1
        /\ (inFlight' >= 1 => Disabled(mutSite', mutStatus'))

\* C24 as stated: a row is deleted only after the confirm dialog is accepted,
\* declining sends nothing and changes nothing, and on every page with delete
\* buttons they are all disabled while a delete is pending, so at most one
\* DELETE request of the page is in flight.
C24_ConfirmedOneDeleteEverywhere ==
    [][ConfirmGuardsDelete /\ OneDeleteInFlight(DeleteSites)]_vars

\* C24, amended: the confirm dialog guards every delete; the delete buttons
\* are disabled while a delete is pending, and at most one DELETE request is
\* in flight, on the list pages. (The rows of HomePage keep their delete
\* buttons enabled.)
C24_ConfirmedOneDeleteOnListPages ==
    [][ConfirmGuardsDelete /\ OneDeleteInFlight(ListDeleteSites)]_vars

\* C24 witness: on a list page one dialog was declined, the next accepted, and
\* the DELETE it sent is in flight with the delete buttons disabled.
C24_Witness ==
    /\ mutSite \in ListDeleteSites
    /\ answers = <<FALSE, TRUE>>
    /\ inFlight = 1 /\ mutations = 1
    /\ Disabled(mutSite, mutStatus)

====
